---- MODULE Spec2Model ----
(***************************************************************************)
(* A model of the near-Earth-object close-approach explorer: the record    *)
(* types (models.py), the filter builder, the predicates and limit         *)
(* (filters.py) and the writers (write.py).                                *)
(*                                                                         *)
(* Python values are records [kind, num, str] so that values of different  *)
(* Python types can be compared with each other, as Python does.           *)
(***************************************************************************)
EXTENDS Integers, Sequences, FiniteSets, TLC

(* ------------------------------ bounds --------------------------------- *)
\* largest float magnitude used as an attribute or reference value
MaxNum == 1
\* longest stream handed to limit
MaxLen == 3
\* objects and approaches constructed in the models session
MaxNeos == 2
MaxApproaches == 2
\* set_neo / add_approach calls in the models session
MaxCalls == 3
\* approaches handed to the database constructor
MaxLoaded == 3
\* approaches of the database whose query results are written
MaxResults == 2

(* --------------------------- Python values ----------------------------- *)
None == [kind |-> "NoneType", num |-> 0, str |-> ""]
Float(n) == [kind |-> "float", num |-> n, str |-> ""]
\* float('nan'): a float that is no number
NaN == [kind |-> "float", num |-> 0, str |-> "nan"]
Bool(b) == [kind |-> "bool", num |-> IF b THEN 1 ELSE 0, str |-> ""]
PyInt(n) == [kind |-> "int", num |-> n, str |-> ""]
Str(s) == [kind |-> "str", num |-> 0, str |-> s]
\* datetime.datetime, in minutes since 2020-01-01 00:00
DateTime(m) == [kind |-> "datetime", num |-> m, str |-> ""]
\* datetime.date, in days since 2020-01-01
Date(d) == [kind |-> "date", num |-> d, str |-> ""]

IsNone(v) == v.kind = "NoneType"
IsNaN(v) == v.kind = "float" /\ v.str = "nan"
\* bool is a subclass of int: it compares with floats
IsNumber(v) == v.kind \in {"float", "bool", "int"}
\* bool(v)
Truthy(v) ==
    CASE v.kind = "NoneType" -> FALSE
      [] v.kind = "str" -> v.str # ""
      [] v.kind \in {"float", "bool", "int"} -> IsNaN(v) \/ v.num # 0
      [] OTHER -> TRUE

MinutesPerDay == 1440

Pad2(n) == IF n < 10 THEN "0" \o ToString(n) ELSE ToString(n)
ClockStr(m) ==
    Pad2((m % MinutesPerDay) \div 60) \o ":" \o Pad2(m % 60)

\* the times of the data set: two minutes of one day, and the next day
Times == {DateTime(0), DateTime(1), DateTime(MinutesPerDay)}

\* helpers.datetime_to_str: '%Y-%m-%d %H:%M'
datetime_to_str(t) ==
    Str("2020-01-" \o Pad2(t.num \div MinutesPerDay + 1) \o " " \o ClockStr(t.num))

\* the calendar-date format of the approach data: '%Y-%b-%d %H:%M'
CdStr(t) ==
    Str("2020-Jan-" \o Pad2(t.num \div MinutesPerDay + 1) \o " " \o ClockStr(t.num))

\* helpers.cd_to_datetime: the datetime a calendar-date string names
cd_to_datetime(s) == CHOOSE t \in Times : CdStr(t) = s

\* datetime.date()
DateOf(t) == Date(t.num \div MinutesPerDay)

(* ------------------------------ models --------------------------------- *)
\* a reference to no object (Python None in CloseApproach.neo)
NoneRef == 0

\* NearEarthObject.__init__
NearEarthObject__init__(designation, name, diameter, hazardous) ==
    [designation |-> designation,
     name |-> name,
     diameter |-> diameter,
     hazardous |-> hazardous,
     approaches |-> <<>>]

\* CloseApproach.__init__
CloseApproach__init__(designation, time, distance, velocity) ==
    [designation_ |-> designation,
     time |-> IF time.kind = "str" THEN cd_to_datetime(time) ELSE time,
     distance |-> distance,
     velocity |-> velocity,
     neo |-> NoneRef]

\* CloseApproach.set_neo without its guard
set_neo_unguarded(self, neo) == [self EXCEPT !.neo = neo]

\* CloseApproach.set_neo: self is the approach record, neo a reference
set_neo(self, neo) ==
    IF neo # NoneRef THEN [self EXCEPT !.neo = neo] ELSE self

\* NearEarthObject.add_approach, forgetting the approach
add_approach_dropped(self, approach) == self

\* NearEarthObject.add_approach: approach is a reference to an approach
add_approach(self, approach) ==
    [self EXCEPT !.approaches = Append(@, approach)]

\* NearEarthObject.serialize writing a missing name as the empty string
NeoSerialize_blankname(self) ==
    [designation |-> self.designation,
     name |-> IF Truthy(self.name) THEN self.name ELSE Str(""),
     diameter_km |-> self.diameter,
     potentially_hazardous |-> self.hazardous]

\* NearEarthObject.serialize
NeoSerialize(self) ==
    [designation |-> self.designation,
     name |-> self.name,
     diameter_km |-> self.diameter,
     potentially_hazardous |-> self.hazardous]

\* CloseApproach.serialize
ApproachSerialize(self) ==
    [datetime_utc |-> datetime_to_str(self.time),
     distance_au |-> self.distance,
     velocity_km_s |-> self.velocity]

(* ------------------------------ filters -------------------------------- *)
\* what an expression gives: a value, or the exception it raises
Return(v) == [raised |-> "none", value |-> v]
Raise(e) == [raised |-> e, value |-> None]

\* the comparators of the operator module
Operators == {"eq", "ne", "lt", "le", "gt", "ge"}

OrderHolds(op, x, y) ==
    CASE op = "lt" -> x < y
      [] op = "le" -> x <= y
      [] op = "gt" -> x > y
      [] op = "ge" -> x >= y

PyBool(b) == IF b THEN "True" ELSE "False"

\* operator.<op>(a, b) on None, bool, float, date and datetime values: "True",
\* "False" or the exception raised
OperatorApply(op, a, b) ==
    IF IsNumber(a) /\ IsNumber(b)
    THEN IF IsNaN(a) \/ IsNaN(b) THEN PyBool(op = "ne")
         ELSE CASE op = "eq" -> PyBool(a.num = b.num)
                [] op = "ne" -> PyBool(a.num # b.num)
                [] OTHER -> PyBool(OrderHolds(op, a.num, b.num))
    ELSE CASE op = "eq" -> PyBool(a = b)
           [] op = "ne" -> PyBool(a # b)
           [] a.kind = b.kind /\ a.kind \in {"date", "datetime"} ->
                  PyBool(OrderHolds(op, a.num, b.num))
           [] OTHER -> "TypeError"

FilterClasses ==
    {"AttributeFilter", "DateFilter", "DistanceFilter", "VelocityFilter",
     "DiameterFilter", "HazardousFilter"}

\* AttributeFilter.__init__, inherited by every subclass
AttributeFilter__init__(cls, op, value) ==
    Return([cls |-> cls, op |-> op, value |-> value])

\* AttributeFilter.get of a subclass that forgot to raise
AttributeFilter_get_distance(approach) == Return(approach.distance)

\* AttributeFilter.get
AttributeFilter_get(approach) == Raise("UnsupportedCriterionError")

\* DateFilter.get
DateFilter_get(approach) ==
    IF approach.time.kind = "datetime" THEN Return(DateOf(approach.time))
    ELSE Raise("AttributeError")

\* DistanceFilter.get
DistanceFilter_get(approach) == Return(approach.distance)

\* VelocityFilter.get
VelocityFilter_get(approach) == Return(approach.velocity)

\* DiameterFilter.get reading the approach instead of its object
DiameterFilter_get_distance(objects, approach) == Return(approach.distance)

\* DiameterFilter.get: objects is the heap of NearEarthObjects
DiameterFilter_get(objects, approach) ==
    IF approach.neo = NoneRef THEN Raise("AttributeError")
    ELSE Return(objects[approach.neo].diameter)

\* HazardousFilter.get
HazardousFilter_get(objects, approach) ==
    IF approach.neo = NoneRef THEN Raise("AttributeError")
    ELSE Return(objects[approach.neo].hazardous)

\* self.get(approach), dispatched on the class of self
Get(cls, objects, approach) ==
    CASE cls = "AttributeFilter" -> AttributeFilter_get(approach)
      [] cls = "DateFilter" -> DateFilter_get(approach)
      [] cls = "DistanceFilter" -> DistanceFilter_get(approach)
      [] cls = "VelocityFilter" -> VelocityFilter_get(approach)
      [] cls = "DiameterFilter" -> DiameterFilter_get(objects, approach)
      [] cls = "HazardousFilter" -> HazardousFilter_get(objects, approach)

\* AttributeFilter.__call__: self.op(self.get(approach), self.value)
AttributeFilter__call__(self, objects, approach) ==
    LET got == Get(self.cls, objects, approach)
    IN IF got.raised # "none" THEN got.raised
       ELSE OperatorApply(self.op, got.value, self.value)

\* the parameters of create_filters, in the order of args
Parameters ==
    <<"date", "start_date", "end_date", "distance_min", "distance_max",
      "velocity_min", "velocity_max", "diameter_min", "diameter_max", "hazardous">>

\* None in a list of filters
NoFilter == [cls |-> "NoneType", op |-> "", value |-> None]

\* create_filters keeping the arguments that are true
ArgsNotNone_truthy(a) == SelectSeq(a, Truthy)

\* args_not_none of create_filters
ArgsNotNone(a) == SelectSeq(a, LAMBDA x : ~IsNone(x))

\* the ten filters create_filters constructs, in the order of filters
AllFilters(a) ==
    <<AttributeFilter__init__("DateFilter", "eq", a[1]).value,
      AttributeFilter__init__("DateFilter", "ge", a[2]).value,
      AttributeFilter__init__("DateFilter", "le", a[3]).value,
      AttributeFilter__init__("DistanceFilter", "ge", a[4]).value,
      AttributeFilter__init__("DistanceFilter", "le", a[5]).value,
      AttributeFilter__init__("VelocityFilter", "ge", a[6]).value,
      AttributeFilter__init__("VelocityFilter", "le", a[7]).value,
      AttributeFilter__init__("DiameterFilter", "ge", a[8]).value,
      AttributeFilter__init__("DiameterFilter", "le", a[9]).value,
      AttributeFilter__init__("HazardousFilter", "eq", a[10]).value>>

\* list_mapped_filters keeping the filters of the arguments that are true
MappedFilters_truthy(a) ==
    [i \in 1..Len(a) |-> IF Truthy(a[i]) THEN AllFilters(a)[i] ELSE NoFilter]

\* list_mapped_filters of create_filters
MappedFilters(a) ==
    [i \in 1..Len(a) |-> IF ~IsNone(a[i]) THEN AllFilters(a)[i] ELSE NoFilter]

\* what create_filters returns: None, or a list
ReturnNone == [isNone |-> TRUE, items |-> <<>>]
ReturnList(q) == [isNone |-> FALSE, items |-> q]

\* create_filters
create_filters(a) ==
    IF Len(ArgsNotNone(a)) = 0 THEN ReturnNone
    ELSE ReturnList(SelectSeq(MappedFilters(a), LAMBDA f : f # NoFilter))

(* ------------------------------- limit --------------------------------- *)
\* a stream object: the iterator itself, an islice over it, or nothing because
\* islice raised ValueError
NoStream == [kind |-> "none", cnt |-> 0, stop |-> 0]
SameIterator == [kind |-> "iterator", cnt |-> 0, stop |-> 0]

\* itertools.islice(iterator, n): n must not be negative
islice(n) ==
    IF n.num < 0 THEN [kind |-> "ValueError", cnt |-> 0, stop |-> 0]
    ELSE [kind |-> "islice", cnt |-> 0, stop |-> n.num]

\* islice testing its stop only after taking the next value
IsliceTakes_late(s) == s.cnt <= s.stop

\* islice.__next__ takes a value from the iterator only below its stop
IsliceTakes(s) == s.cnt < s.stop

\* limit passing the stream through for None only
limit_none_only(n) == IF IsNone(n) THEN SameIterator ELSE islice(n)

\* limit
limit(n) == IF ~Truthy(n) THEN SameIterator ELSE islice(n)

(* ------------------------------ writers -------------------------------- *)
\* the fieldnames of write_to_csv
fieldnames ==
    <<"datetime_utc", "distance_au", "velocity_km_s", "designation", "name",
      "diameter_km", "potentially_hazardous">>

\* str(v) of a float: repr of the number, or nan
FloatStr(v) == IF IsNaN(v) THEN "nan" ELSE ToString(v.num) \o ".0"

\* the text the csv writer puts in a cell: nothing for None, str(v) otherwise
CsvCell(v) ==
    CASE v.kind = "NoneType" -> ""
      [] v.kind = "str" -> v.str
      [] v.kind = "bool" -> IF v.num = 1 THEN "True" ELSE "False"
      [] v.kind = "float" -> FloatStr(v)
      [] v.kind = "int" -> ToString(v.num)

\* the dict write_to_csv zips for one result: the approach's keys, then the
\* object's
CsvRowDict(objects, result) ==
    LET neo == NeoSerialize(NearEarthObject__init__(
                   objects[result.neo].designation, objects[result.neo].name,
                   objects[result.neo].diameter, objects[result.neo].hazardous))
        approach == ApproachSerialize(CloseApproach__init__(
                   objects[result.neo].designation, result.time,
                   result.distance, result.velocity))
    IN approach @@ neo

\* csv.DictWriter.writerow: the cells of the dict in the order of fieldnames
DictWriterRow(rowdict) ==
    [i \in DOMAIN fieldnames |-> CsvCell(rowdict[fieldnames[i]])]

RECURSIVE CsvRows(_, _, _, _)
\* the loop of write_to_csv from result k on: the rows written so far, and the
\* exception that ended the loop
CsvRows(objects, cas, k, rows) ==
    IF k > Len(cas) THEN [rows |-> rows, raised |-> "none"]
    ELSE IF cas[k].neo = NoneRef THEN [rows |-> rows, raised |-> "AttributeError"]
    ELSE CsvRows(objects, cas, k + 1,
                 Append(rows, DictWriterRow(CsvRowDict(objects, cas[k]))))

\* write_to_csv: the header, then a row per result
write_to_csv(objects, cas) == CsvRows(objects, cas, 1, <<fieldnames>>)

\* json.dump of a value that is no list and no dict
JsonScalar(v) ==
    CASE v.kind = "NoneType" -> [t |-> "null", num |-> 0, str |-> ""]
      [] v.kind = "bool" ->
             [t |-> IF v.num = 1 THEN "true" ELSE "false", num |-> 0, str |-> ""]
      [] v.kind = "float" ->
             IF IsNaN(v) THEN [t |-> "NaN", num |-> 0, str |-> ""]
             ELSE [t |-> "number", num |-> v.num, str |-> "."]
      [] v.kind = "int" -> [t |-> "number", num |-> v.num, str |-> ""]
      [] v.kind = "str" -> [t |-> "string", num |-> 0, str |-> v.str]

\* json.load of a token that is no array and no object
JsonValue(j) ==
    CASE j.t = "null" -> None
      [] j.t = "true" -> Bool(TRUE)
      [] j.t = "false" -> Bool(FALSE)
      [] j.t = "NaN" -> NaN
      [] j.t = "number" -> IF j.str = "." THEN Float(j.num) ELSE PyInt(j.num)
      [] j.t = "string" -> Str(j.str)

\* the dict write_to_json appends for one result
JsonDict(objects, result) ==
    LET neo == NeoSerialize(NearEarthObject__init__(
                   objects[result.neo].designation, objects[result.neo].name,
                   objects[result.neo].diameter, objects[result.neo].hazardous))
        approach == ApproachSerialize(CloseApproach__init__(
                   objects[result.neo].designation, result.time,
                   result.distance, result.velocity))
    IN [datetime_utc |-> approach.datetime_utc,
        distance_au |-> approach.distance_au,
        velocity_km_s |-> approach.velocity_km_s,
        neo |-> neo]

\* json.dump of the list of write_to_json
JsonDump(list) ==
    [k \in DOMAIN list |->
        [datetime_utc |-> JsonScalar(list[k].datetime_utc),
         distance_au |-> JsonScalar(list[k].distance_au),
         velocity_km_s |-> JsonScalar(list[k].velocity_km_s),
         neo |-> [designation |-> JsonScalar(list[k].neo.designation),
                  name |-> JsonScalar(list[k].neo.name),
                  diameter_km |-> JsonScalar(list[k].neo.diameter_km),
                  potentially_hazardous |->
                      JsonScalar(list[k].neo.potentially_hazardous)]]]

\* json.load of a document write_to_json wrote
JsonLoad(doc) ==
    [k \in DOMAIN doc |->
        [datetime_utc |-> JsonValue(doc[k].datetime_utc),
         distance_au |-> JsonValue(doc[k].distance_au),
         velocity_km_s |-> JsonValue(doc[k].velocity_km_s),
         neo |-> [designation |-> JsonValue(doc[k].neo.designation),
                  name |-> JsonValue(doc[k].neo.name),
                  diameter_km |-> JsonValue(doc[k].neo.diameter_km),
                  potentially_hazardous |->
                      JsonValue(doc[k].neo.potentially_hazardous)]]]

\* write_to_json: the loop raises at the first result without an object, before
\* anything is dumped to the opened file
write_to_json(objects, cas) ==
    IF \E k \in DOMAIN cas : cas[k].neo = NoneRef
    THEN [doc |-> <<>>, raised |-> "AttributeError"]
    ELSE [doc |-> JsonDump([k \in DOMAIN cas |-> JsonDict(objects, cas[k])]),
          raised |-> "none"]

(* ------------------------------- state --------------------------------- *)
VARIABLES
    neos,        \* the NearEarthObject instances, by reference 1..Len
    approaches,  \* the CloseApproach instances, by reference 1..Len
    call,        \* the last method call made on a model object
    calls,       \* how many set_neo / add_approach calls were made
    pc,          \* where the program is
    args,        \* the arguments of the last create_filters call
    filters,     \* what create_filters returned
    flt,         \* the predicate last constructed or invoked
    subject,     \* the approach the predicate was invoked on
    outcome,     \* what the last construction or invocation gave
    source,      \* the values of the stream handed to limit
    limN,        \* the n handed to limit
    lim,         \* what limit returned
    pulled,      \* how many values were taken from the stream
    requests,    \* how many times the consumer asked for the next value
    out,         \* the values the consumer received
    stopped,     \* the consumer was told the stream is exhausted
    results,     \* the approaches handed to a writer, by reference
    csvFile,     \* the rows of the CSV file written
    jsonFile,    \* the JSON document written
    parsed,      \* the JSON document read back
    raised       \* the exception the writer raised

modelVars == <<neos, approaches, call, calls>>
filterVars == <<args, filters, flt, subject, outcome>>
limitVars == <<source, limN, lim, pulled, requests, out, stopped>>
writeVars == <<results, csvFile, jsonFile, parsed, raised>>
vars ==
    <<neos, approaches, call, calls, pc, args, filters, flt, subject, outcome,
      source, limN, lim, pulled, requests, out, stopped,
      results, csvFile, jsonFile, parsed, raised>>

Designations == {Str("433"), Str("1036")}
\* a designation no object carries
Unknown == Str("999")

NoCall == [fn |-> "none", self |-> 0, arg |-> 0]

\* nothing was written
WriteIdle ==
    /\ results = <<>>
    /\ csvFile = <<>>
    /\ jsonFile = <<>>
    /\ parsed = <<>>
    /\ raised = "none"

\* no stream was limited
LimitIdle ==
    /\ source = <<>>
    /\ limN = None
    /\ lim = NoStream
    /\ pulled = 0
    /\ requests = 0
    /\ out = <<>>
    /\ stopped = FALSE

\* no filter was built, constructed or invoked
FiltersIdle ==
    /\ args = <<>>
    /\ filters = ReturnNone
    /\ flt = NoFilter
    /\ subject = 0
    /\ outcome = "none"

(* --------------------------- models session ---------------------------- *)
\* any sequence of constructions and set_neo / add_approach calls
InitModels ==
    /\ neos = <<>>
    /\ approaches = <<>>
    /\ call = NoCall
    /\ calls = 0
    /\ pc = "models"
    /\ FiltersIdle
    /\ WriteIdle
    /\ LimitIdle

NewNeo ==
    /\ Len(neos) < MaxNeos
    /\ neos' = Append(neos,
           NearEarthObject__init__(Str(ToString(Len(neos) + 1)), None, NaN, Bool(FALSE)))
    /\ call' = [fn |-> "NearEarthObject", self |-> Len(neos) + 1, arg |-> 0]
    /\ UNCHANGED <<approaches, calls, pc, filterVars, limitVars, writeVars>>

NewApproach ==
    /\ Len(approaches) < MaxApproaches
    /\ approaches' = Append(approaches,
           CloseApproach__init__(Str("1"), CdStr(DateTime(0)), Float(0), Float(0)))
    /\ call' = [fn |-> "CloseApproach", self |-> Len(approaches) + 1, arg |-> 0]
    /\ UNCHANGED <<neos, calls, pc, filterVars, limitVars, writeVars>>

SetNeo ==
    /\ calls < MaxCalls
    /\ \E a \in 1..Len(approaches), o \in 0..Len(neos) :
         /\ approaches' = [approaches EXCEPT ![a] = set_neo(@, o)]
         /\ call' = [fn |-> "set_neo", self |-> a, arg |-> o]
    /\ calls' = calls + 1
    /\ UNCHANGED <<neos, pc, filterVars, limitVars, writeVars>>

AddApproach ==
    /\ calls < MaxCalls
    /\ \E o \in 1..Len(neos), a \in 1..Len(approaches) :
         /\ neos' = [neos EXCEPT ![o] = add_approach(@, a)]
         /\ call' = [fn |-> "add_approach", self |-> o, arg |-> a]
    /\ calls' = calls + 1
    /\ UNCHANGED <<approaches, pc, filterVars, limitVars, writeVars>>

NextModels == NewNeo \/ NewApproach \/ SetNeo \/ AddApproach

SpecModels == InitModels /\ [][NextModels]_vars

(* ------------------------- C10: frame of the calls --------------------- *)
\* the fields of an approach other than neo
ApproachData(a) == <<a.designation_, a.time, a.distance, a.velocity>>
\* the fields of an object other than approaches
NeoData(o) == <<o.designation, o.name, o.diameter, o.hazardous>>

\* objects and approaches are never removed; new ones start unlinked
ConstructedFresh ==
    /\ Len(approaches') >= Len(approaches)
    /\ Len(neos') >= Len(neos)
    /\ \A a \in (Len(approaches) + 1)..Len(approaches') : approaches'[a].neo = NoneRef
    /\ \A o \in (Len(neos) + 1)..Len(neos') : neos'[o].approaches = <<>>

\* Object.approaches is append-only: a step keeps a collection or appends the
\* argument of add_approach at its end
AppendOnly ==
    \A o \in 1..Len(neos) :
        \/ neos'[o].approaches = neos[o].approaches
        \/ /\ call'.fn = "add_approach" /\ call'.self = o
           /\ neos'[o].approaches = Append(neos[o].approaches, call'.arg)

\* no field other than Approach.neo and Object.approaches changes, and each call
\* touches the object it is called on only
FrameOfCalls ==
    /\ \A a \in 1..Len(approaches) :
           /\ ApproachData(approaches'[a]) = ApproachData(approaches[a])
           /\ approaches'[a].neo # approaches[a].neo
                  => call'.fn = "set_neo" /\ call'.self = a
    /\ \A o \in 1..Len(neos) :
           /\ NeoData(neos'[o]) = NeoData(neos[o])
           /\ neos'[o].approaches # neos[o].approaches
                  => call'.fn = "add_approach" /\ call'.self = o

\* set_neo(None) changes nothing
SetNeoNoneKeeps ==
    (call'.fn = "set_neo" /\ call'.arg = NoneRef) => approaches' = approaches

\* write-once: a neo that is set is never changed again
NeoWriteOnce ==
    \A a \in 1..Len(approaches) :
        approaches[a].neo # NoneRef => approaches'[a].neo = approaches[a].neo

\* a neo that is set is never unset, and set_neo(o) leaves neo = o
NeoSetBySetNeo ==
    /\ \A a \in 1..Len(approaches) :
           approaches[a].neo # NoneRef => approaches'[a].neo # NoneRef
    /\ (call'.fn = "set_neo" /\ call'.arg # NoneRef)
           => approaches'[call'.self].neo = call'.arg

\* C10 as claimed: over any sequence of set_neo and add_approach calls,
\* Approach.neo is write-once (None at construction, never changed once set,
\* never changed by set_neo(None)), Object.approaches is append-only (empty at
\* construction) and no other field is changed by either call.
C10_WriteOnceAppendOnly ==
    [][ConstructedFresh /\ NeoWriteOnce /\ SetNeoNoneKeeps /\ AppendOnly
           /\ FrameOfCalls]_vars

\* C10 as amended: Approach.neo is None at construction, set_neo(None) never
\* changes it and a neo that is set is never unset, but set_neo with an Object
\* always stores that Object, replacing an Object stored before;
\* Object.approaches is append-only and no other field is changed.
C10_SetNeoOverwrites ==
    [][ConstructedFresh /\ NeoSetBySetNeo /\ SetNeoNoneKeeps /\ AppendOnly
           /\ FrameOfCalls]_vars

\* set_neo(None) was just called on a linked approach, after an append
C10_Witness ==
    /\ call.fn = "set_neo" /\ call.arg = NoneRef
    /\ approaches[call.self].neo # NoneRef
    /\ \E o \in 1..Len(neos) : Len(neos[o].approaches) >= 1

(* ------------------------ database construction ------------------------ *)
RECURSIVE SeqsUpTo(_, _)
\* the sequences over S of length at most n
SeqsUpTo(S, n) ==
    IF n = 0 THEN {<<>>}
    ELSE LET shorter == SeqsUpTo(S, n - 1)
         IN shorter \cup {Append(q, x) : q \in {r \in shorter : Len(r) = n - 1}, x \in S}

Injective(q) == \A i, j \in DOMAIN q : q[i] = q[j] => i = j

\* the designation index of the database: the object of a designation, if any
by_designation(objects, d) ==
    IF \E o \in DOMAIN objects : objects[o].designation = d
    THEN CHOOSE o \in DOMAIN objects : objects[o].designation = d
    ELSE NoneRef

\* the join for approach a: link it to the object its designation names
LinkApproach(db, a) ==
    LET o == by_designation(db.neos, db.approaches[a].designation_)
    IN IF o = NoneRef THEN db
       ELSE [neos |-> [db.neos EXCEPT ![o] = add_approach(@, a)],
             approaches |-> [db.approaches EXCEPT ![a] = set_neo(@, o)]]

RECURSIVE LinkFrom(_, _)
\* the join for the approaches a, a + 1, ... in input order
LinkFrom(db, a) ==
    IF a > Len(db.approaches) THEN db ELSE LinkFrom(LinkApproach(db, a), a + 1)

\* NEODatabase.__init__: the join over the loaded objects and approaches
NEODatabase__init__(objects, cas) ==
    LinkFrom([neos |-> objects, approaches |-> cas], 1)

\* the loaded objects: distinct designations, in any order
LoadedNeos ==
    {[i \in DOMAIN q |-> NearEarthObject__init__(q[i], None, NaN, Bool(FALSE))] :
        q \in {r \in SeqsUpTo(Designations, Cardinality(Designations)) : Injective(r)}}

\* the loaded approaches: any designations, some of no object
LoadedApproaches ==
    {[i \in DOMAIN q |->
          CloseApproach__init__(q[i], CdStr(DateTime(0)), Float(0), Float(0))] :
        q \in SeqsUpTo(Designations \cup {Unknown}, MaxLoaded)}

InitJoin ==
    /\ neos \in LoadedNeos
    /\ approaches \in LoadedApproaches
    /\ call = NoCall
    /\ calls = 0
    /\ pc = "loaded"
    /\ FiltersIdle
    /\ WriteIdle
    /\ LimitIdle

BuildDatabase ==
    /\ pc = "loaded"
    /\ LET db == NEODatabase__init__(neos, approaches)
       IN /\ neos' = db.neos
          /\ approaches' = db.approaches
    /\ pc' = "joined"
    /\ UNCHANGED <<call, calls, filterVars, limitVars, writeVars>>

NextJoin == BuildDatabase

SpecJoin == InitJoin /\ [][NextJoin]_vars

(* --------------------------- C5: the join ------------------------------ *)
\* how often x occurs in the sequence q
Count(q, x) == Cardinality({i \in DOMAIN q : q[i] = x})

HasObject(d) == \E o \in DOMAIN neos : neos[o].designation = d

\* C5: after the join, every approach whose designation names an object has
\* neo set to the object of that designation and is exactly once in that
\* object's approaches and in no other object's; every approach of an unknown
\* designation still has neo None (and is in no object's approaches).
C5_JoinLinksBothWays ==
    pc = "joined" =>
        \A a \in DOMAIN approaches :
            LET d == approaches[a].designation_
                n == approaches[a].neo
            IN IF HasObject(d)
               THEN /\ n # NoneRef
                    /\ neos[n].designation = d
                    /\ Count(neos[n].approaches, a) = 1
                    /\ \A o \in DOMAIN neos \ {n} : Count(neos[o].approaches, a) = 0
               ELSE /\ n = NoneRef
                    /\ \A o \in DOMAIN neos : Count(neos[o].approaches, a) = 0

\* a join of two objects with two approaches of one of them and one approach
\* of an unknown designation
C5_Witness ==
    /\ pc = "joined"
    /\ Len(neos) = 2
    /\ \E o \in DOMAIN neos : Len(neos[o].approaches) = 2
    /\ \E a \in DOMAIN approaches :
           approaches[a].designation_ = Unknown /\ approaches[a].neo = NoneRef

(* --------------------------- filters session --------------------------- *)
\* a joined database to invoke predicates on: an object of unknown diameter,
\* an object of known diameter, an approach of each and an approach of no object
SampleDatabase ==
    NEODatabase__init__(
        <<NearEarthObject__init__(Str("433"), Str("Eros"), NaN, Bool(FALSE)),
          NearEarthObject__init__(Str("1036"), None, Float(1), Bool(TRUE))>>,
        <<CloseApproach__init__(Str("433"), CdStr(DateTime(0)), Float(0), Float(1)),
          CloseApproach__init__(Str("1036"), CdStr(DateTime(MinutesPerDay)), Float(1), Float(0)),
          CloseApproach__init__(Unknown, CdStr(DateTime(1)), Float(1), Float(1))>>)

\* the value given to parameter i in variant v of the command line
ArgValue(i, v) ==
    CASE i \in 1..3 -> Date((v + i) % (MaxNum + 1))
      [] i \in 4..9 -> Float((v + i) % (MaxNum + 1))
      [] i = 10 -> Bool(v % 2 = 1)

\* the argument lists of create_filters: every choice of the set parameters
ArgSpace ==
    {[i \in 1..Len(Parameters) |-> IF i \in S THEN ArgValue(i, v) ELSE None] :
        S \in SUBSET (1..Len(Parameters)), v \in 0..MaxNum}

\* the reference values a predicate is constructed with
ValueSpace ==
    {None, NaN, Bool(FALSE), Bool(TRUE), Date(0), Date(1)}
        \cup {Float(n) : n \in 0..MaxNum}

InitFilters ==
    /\ neos = SampleDatabase.neos
    /\ approaches = SampleDatabase.approaches
    /\ call = NoCall
    /\ calls = 0
    /\ pc = "start"
    /\ FiltersIdle
    /\ WriteIdle
    /\ LimitIdle

\* main calls create_filters with the options of the command line
CreateFilters ==
    /\ pc = "start"
    /\ \E a \in ArgSpace :
         /\ args' = a
         /\ filters' = create_filters(a)
    /\ pc' = "built"
    /\ UNCHANGED <<modelVars, limitVars, writeVars, flt, subject, outcome>>

\* a predicate of any class is constructed from an operator and a value
Construct ==
    /\ pc = "start"
    /\ \E cls \in FilterClasses, op \in Operators, value \in ValueSpace :
         LET made == AttributeFilter__init__(cls, op, value)
         IN /\ flt' = made.value
            /\ outcome' = made.raised
    /\ pc' = "constructed"
    /\ UNCHANGED <<modelVars, limitVars, writeVars, args, filters, subject>>

\* the constructed predicate is invoked on an approach of the database
Invoke ==
    /\ pc = "constructed"
    /\ \E a \in DOMAIN approaches :
         /\ subject' = a
         /\ outcome' = AttributeFilter__call__(flt, neos, approaches[a])
    /\ pc' = "called"
    /\ UNCHANGED <<modelVars, limitVars, writeVars, args, filters, flt>>

\* a predicate create_filters returned is invoked on an approach of the database
InvokeBuilt ==
    /\ pc = "built"
    /\ \E i \in DOMAIN filters.items, a \in DOMAIN approaches :
         /\ flt' = filters.items[i]
         /\ subject' = a
         /\ outcome' = AttributeFilter__call__(filters.items[i], neos, approaches[a])
    /\ pc' = "called"
    /\ UNCHANGED <<modelVars, limitVars, writeVars, args, filters>>

NextFilters == CreateFilters \/ Construct \/ Invoke \/ InvokeBuilt

SpecFilters == InitFilters /\ [][NextFilters]_vars

(* ------------------------ C1, C2: create_filters ----------------------- *)
SetParameters == {i \in DOMAIN args : ~IsNone(args[i])}

\* C1: create_filters returns None exactly when all ten parameters are None;
\* for every other combination (hazardous=False alone included) it returns a
\* collection that is not None and not empty.
C1_NoneIffAllUnset ==
    args # <<>> =>
        /\ filters.isNone <=> SetParameters = {}
        /\ ~filters.isNone => Len(filters.items) > 0

\* create_filters(hazardous=False) returned a collection
C1_Witness ==
    /\ args # <<>>
    /\ SetParameters = {10}
    /\ args[10] = Bool(FALSE)
    /\ ~filters.isNone

\* the mapping of parameters to extraction variants and operators
ExpectedClass ==
    <<"DateFilter", "DateFilter", "DateFilter", "DistanceFilter", "DistanceFilter",
      "VelocityFilter", "VelocityFilter", "DiameterFilter", "DiameterFilter",
      "HazardousFilter">>
ExpectedOp == <<"eq", "ge", "le", "ge", "le", "ge", "le", "ge", "le", "eq">>
ExpectedFilter(i) ==
    [cls |-> ExpectedClass[i], op |-> ExpectedOp[i], value |-> args[i]]

\* C2: with at least one parameter set, the returned collection holds exactly
\* one predicate per set parameter, with the variant and operator of the
\* mapping and the parameter's value, none for an unset parameter, and no
\* predicate whose reference value is None.
C2_OnePredicatePerSetParameter ==
    (args # <<>> /\ SetParameters # {}) =>
        /\ ~filters.isNone
        /\ Len(filters.items) = Cardinality(SetParameters)
        /\ \A i \in SetParameters : Count(filters.items, ExpectedFilter(i)) = 1
        /\ \A k \in DOMAIN filters.items :
               /\ ~IsNone(filters.items[k].value)
               /\ \E i \in SetParameters : filters.items[k] = ExpectedFilter(i)

\* some but not all parameters are set, one of them to 0.0
C2_Witness ==
    /\ args # <<>>
    /\ Cardinality(SetParameters) = 4
    /\ \E i \in SetParameters : args[i] = Float(0)
    /\ Len(filters.items) = 4

(* ---------------------- C6, C7: invoking predicates -------------------- *)
\* the invoked approach has an object of unknown diameter
SubjectDiameterUnknown ==
    /\ subject # 0
    /\ approaches[subject].neo # NoneRef
    /\ IsNaN(neos[approaches[subject].neo].diameter)

IsBase == flt.cls = "AttributeFilter"

\* C7 as claimed: constructing the base predicate fails with the unsupported
\* criterion error, and so does invoking it; neither yields a boolean.
C7_BaseConstructAndInvokeFail ==
    /\ (pc = "constructed" /\ IsBase) => outcome = "UnsupportedCriterionError"
    /\ (pc = "called" /\ IsBase) => outcome = "UnsupportedCriterionError"

\* C7 as amended: constructing the base predicate raises no error and gives
\* a predicate; invoking that predicate on any approach fails with the
\* unsupported criterion error and never yields a boolean.
C7_BaseInvokeFails ==
    /\ (pc = "constructed" /\ IsBase) => outcome = "none"
    /\ (pc = "called" /\ IsBase) => outcome = "UnsupportedCriterionError"

\* the base predicate was constructed and invoked
C7_Witness == pc = "called" /\ IsBase /\ outcome = "UnsupportedCriterionError"

(* ---------------------------- limit session ---------------------------- *)
\* the values of the streams
Elems == {"a", "b"}
\* the n of limit: None, a negative number, 0, and up to beyond the stream
LimitSpace == {None} \cup {PyInt(k) : k \in -1..(MaxLen + 1)}
\* how often the consumer asks: until after the end of the longest stream
MaxRequests == MaxLen + 2

InitLimit ==
    /\ neos = <<>>
    /\ approaches = <<>>
    /\ call = NoCall
    /\ calls = 0
    /\ pc = "start"
    /\ FiltersIdle
    /\ WriteIdle
    /\ source \in SeqsUpTo(Elems, MaxLen)
    /\ limN = None
    /\ lim = NoStream
    /\ pulled = 0
    /\ requests = 0
    /\ out = <<>>
    /\ stopped = FALSE

\* main calls limit on the stream of results
Limit ==
    /\ pc = "start"
    /\ \E n \in LimitSpace :
         /\ limN' = n
         /\ lim' = limit(n)
    /\ pc' = "limited"
    /\ UNCHANGED <<modelVars, filterVars, writeVars, source, pulled, requests, out, stopped>>

\* the consumer asks the unlimited stream for its next value
NextOfIterator ==
    /\ pc = "limited"
    /\ lim.kind = "iterator"
    /\ requests < MaxRequests
    /\ requests' = requests + 1
    /\ IF pulled < Len(source)
       THEN /\ pulled' = pulled + 1
            /\ out' = Append(out, source[pulled + 1])
            /\ UNCHANGED stopped
       ELSE /\ stopped' = TRUE
            /\ UNCHANGED <<pulled, out>>
    /\ UNCHANGED <<modelVars, filterVars, writeVars, pc, source, limN, lim>>

\* the consumer asks the islice for its next value
NextOfIslice ==
    /\ pc = "limited"
    /\ lim.kind = "islice"
    /\ requests < MaxRequests
    /\ requests' = requests + 1
    /\ IF IsliceTakes(lim) /\ pulled < Len(source)
       THEN /\ pulled' = pulled + 1
            /\ out' = Append(out, source[pulled + 1])
            /\ lim' = [lim EXCEPT !.cnt = @ + 1]
            /\ UNCHANGED stopped
       ELSE /\ stopped' = TRUE
            /\ UNCHANGED <<pulled, out, lim>>
    /\ UNCHANGED <<modelVars, filterVars, writeVars, pc, source, limN>>

NextLimit == Limit \/ NextOfIterator \/ NextOfIslice

SpecLimit == InitLimit /\ [][NextLimit]_vars

(* --------------------------- C3, C4: limit ----------------------------- *)
IsPrefix(q, r) == Len(q) <= Len(r) /\ SubSeq(r, 1, Len(q)) = q

\* what limit(source, n) is to yield, for n None or not negative
LimitedTo(n) ==
    IF IsNone(n) \/ n.num = 0 THEN source
    ELSE IF n.num < Len(source) THEN SubSeq(source, 1, n.num)
    ELSE source

\* C3: limit(seq, 0) and limit(seq, None) yield all of seq; limit(seq, k) with
\* 0 < k < len(seq) yields exactly the first k values in order; limit(seq, k)
\* with k >= len(seq) yields all of seq in order.
C3_LimitYields ==
    (pc = "limited" /\ (IsNone(limN) \/ limN.num >= 0)) =>
        /\ lim.kind \in {"iterator", "islice"}
        /\ IsPrefix(out, LimitedTo(limN))
        /\ stopped => out = LimitedTo(limN)

\* a stream of three values was limited to two, and consumed to its end
C3_Witness ==
    /\ pc = "limited" /\ stopped
    /\ Len(source) = 3 /\ limN = PyInt(2)
    /\ out = SubSeq(source, 1, 2)

\* C4: for n > 0, however often the consumer asks, the stream has given at
\* most n values, never more than the consumer asked for, and every value it
\* gave was handed to the consumer.
C4_LimitIsLazy ==
    (pc = "limited" /\ ~IsNone(limN) /\ limN.num > 0) =>
        /\ pulled <= limN.num
        /\ pulled <= requests
        /\ pulled = Len(out)

\* the consumer went on asking after the limited stream ended before the
\* end of its source
C4_Witness ==
    /\ pc = "limited" /\ stopped
    /\ ~IsNone(limN) /\ limN.num > 0 /\ limN.num < Len(source)
    /\ requests > limN.num + 1
    /\ pulled = limN.num

(* --------------------------- writers session --------------------------- *)
RECURSIVE InsertByTime(_, _, _)
\* the references q, sorted by time, with a inserted after those not later
InsertByTime(cas, q, a) ==
    IF q = <<>> THEN <<a>>
    ELSE IF cas[a].time.num < cas[Head(q)].time.num THEN <<a>> \o q
    ELSE <<Head(q)>> \o InsertByTime(cas, Tail(q), a)

RECURSIVE SortedByTime(_, _)
\* the first n approaches in ascending time, those of one time in input order
SortedByTime(cas, n) ==
    IF n = 0 THEN <<>> ELSE InsertByTime(cas, SortedByTime(cas, n - 1), n)

\* what a query can produce: the approaches in time order that pass the
\* filters, all of them without filters
QueryResults(cas) ==
    LET all == SortedByTime(cas, Len(cas))
    IN {SelectSeq(all, LAMBDA a : a \in S) : S \in SUBSET DOMAIN cas}

\* the objects of the data set: one designation, any name, diameter and flag
WrittenNeos ==
    {<<NearEarthObject__init__(Str("433"), nm, dm, hz)>> :
        nm \in {None, Str(""), Str("Eros")},
        dm \in {NaN} \cup {Float(n) : n \in 0..MaxNum},
        hz \in {Bool(FALSE), Bool(TRUE)}}

\* the approaches of the data set: of that designation or of an unknown one
WrittenApproaches ==
    SeqsUpTo({CloseApproach__init__(d, CdStr(t), Float(x), Float(MaxNum - x)) :
                 d \in {Str("433"), Unknown},
                 t \in {DateTime(1), DateTime(MinutesPerDay)},
                 x \in {0, MaxNum}},
             MaxResults)

InitWrite ==
    /\ \E objects \in WrittenNeos, cas \in WrittenApproaches :
         LET db == NEODatabase__init__(objects, cas)
         IN /\ neos = db.neos
            /\ approaches = db.approaches
    /\ call = NoCall
    /\ calls = 0
    /\ pc = "start"
    /\ FiltersIdle
    /\ LimitIdle
    /\ WriteIdle

\* main hands the results of a query to write_to_csv
WriteToCsv ==
    /\ pc = "start"
    /\ \E q \in QueryResults(approaches) :
         LET w == write_to_csv(neos, [k \in DOMAIN q |-> approaches[q[k]]])
         IN /\ results' = q
            /\ csvFile' = w.rows
            /\ raised' = w.raised
    /\ pc' = "csv"
    /\ UNCHANGED <<modelVars, filterVars, limitVars, jsonFile, parsed>>

\* main hands the results of a query to write_to_json
WriteToJson ==
    /\ pc = "start"
    /\ \E q \in QueryResults(approaches) :
         LET w == write_to_json(neos, [k \in DOMAIN q |-> approaches[q[k]]])
         IN /\ results' = q
            /\ jsonFile' = w.doc
            /\ raised' = w.raised
    /\ pc' = "json"
    /\ UNCHANGED <<modelVars, filterVars, limitVars, csvFile, parsed>>

\* the JSON file is read back
ReadJson ==
    /\ pc = "json"
    /\ raised = "none"
    /\ parsed' = JsonLoad(jsonFile)
    /\ pc' = "reparsed"
    /\ UNCHANGED <<modelVars, filterVars, limitVars, results, csvFile, jsonFile, raised>>

NextWrite == WriteToCsv \/ WriteToJson \/ ReadJson

SpecWrite == InitWrite /\ [][NextWrite]_vars

(* -------------------------- C8, C9: the writers ------------------------ *)
AllResolved == \A k \in DOMAIN results : approaches[results[k]].neo # NoneRef

\* C8: for results that all have an object, write_to_json raises nothing and
\* the document read back has, per result and in order, the approach's
\* datetime string, distance and velocity and, under the key neo, the
\* object's designation, name (None stays None, "" stays ""), diameter (NaN
\* stays NaN) and hazardous flag.
C8_JsonRoundTrip ==
    AllResolved =>
        /\ pc = "json" => raised = "none"
        /\ pc = "reparsed" =>
               /\ Len(parsed) = Len(results)
               /\ \A k \in DOMAIN results :
                      LET a == approaches[results[k]]
                          o == neos[a.neo]
                      IN /\ parsed[k].datetime_utc = datetime_to_str(a.time)
                         /\ parsed[k].distance_au = a.distance
                         /\ parsed[k].velocity_km_s = a.velocity
                         /\ parsed[k].neo.designation = o.designation
                         /\ parsed[k].neo.name = o.name
                         /\ parsed[k].neo.diameter_km = o.diameter
                         /\ parsed[k].neo.potentially_hazardous = o.hazardous

\* two results of an object without name and of unknown diameter were written
\* and read back
C8_Witness ==
    /\ pc = "reparsed"
    /\ Len(results) = 2 /\ Len(parsed) = 2
    /\ IsNone(neos[1].name) /\ IsNaN(neos[1].diameter)

\* C9: for every result sequence a query can produce, write_to_csv raises
\* nothing and writes the header row of the seven field names, then exactly
\* one row per result, in the order of the results.
C9_CsvOneRowPerResult ==
    pc = "csv" =>
        /\ raised = "none"
        /\ Len(csvFile) = 1 + Len(results)
        /\ csvFile[1] = fieldnames
        /\ \A k \in DOMAIN results :
               csvFile[k + 1][1] = datetime_to_str(approaches[results[k]].time).str

(* ------------------- C11: predicates on every approach ----------------- *)
\* the reference value is of the type the variant extracts
ComparableReference ==
    CASE flt.cls = "DateFilter" -> flt.value.kind = "date"
      [] flt.cls \in {"DistanceFilter", "VelocityFilter", "DiameterFilter",
                      "HazardousFilter"} -> IsNumber(flt.value)
      [] OTHER -> FALSE

\* C11: each of the five concrete predicate variants, built with any of the
\* six operators and a comparable reference value, returns a boolean and
\* raises no error on any approach of the database, an approach whose neo is
\* None (its designation names no object) included.
C11_PredicatesTotal ==
    (pc = "called" /\ flt.cls # "AttributeFilter" /\ ComparableReference) =>
        outcome \in {"True", "False"}

====
